---------------------------- MODULE Spec2Model ----------------------------
(***************************************************************************)
(* The subnet ping sweeper of pingsc.py: scan_subnet fans one ping_host    *)
(* call per host address out over a ThreadPoolExecutor, consumes the       *)
(* futures in submission order and main() prints the sorted result.        *)
(*                                                                         *)
(* Text is modelled as sequences of one-character strings, so that parsing *)
(* a network specification and formatting an address are computed, and     *)
(* sorted() compares the formatted strings the way Python compares str.    *)
(* Addresses are the integers ipaddress uses; the inputs keep the first    *)
(* octet below 128 so that they stay inside TLC's integers.                *)
(***************************************************************************)
EXTENDS Integers, Sequences, FiniteSets, TLC

(***************************************************************************)
(* Bounds of the model.                                                    *)
(***************************************************************************)
\* number of sweeps (runs of main) one behaviour holds
MaxRuns == 2

(***************************************************************************)
(* Text.                                                                   *)
(***************************************************************************)
Digits == <<"0", "1", "2", "3", "4", "5", "6", "7", "8", "9">>

DigitSet == {Digits[i] : i \in 1..Len(Digits)}

\* int() of one ASCII digit
DigitVal(c) == (CHOOSE i \in 1..Len(Digits) : Digits[i] = c) - 1

\* ord() of the characters str(ip) is made of: '.' is 46, '0'..'9' are 48..57
Ord(c) == IF c = "." THEN 46 ELSE 48 + DigitVal(c)

\* str.isascii() and str.isdigit(): non-empty, decimal digits only
IsDigits(s) == Len(s) > 0 /\ \A i \in 1..Len(s) : s[i] \in DigitSet

RECURSIVE ParseInt(_)
\* int(s, 10) of a digit string
ParseInt(s) ==
    IF s = <<>> THEN 0
    ELSE ParseInt(SubSeq(s, 1, Len(s) - 1)) * 10 + DigitVal(s[Len(s)])

RECURSIVE Split(_, _)
\* str.split(sep) for a one-character separator: always at least one part
Split(s, sep) ==
    IF \A i \in 1..Len(s) : s[i] # sep THEN <<s>>
    ELSE LET k == CHOOSE i \in 1..Len(s) :
                      s[i] = sep /\ \A j \in 1..(i - 1) : s[j] # sep
         IN  <<SubSeq(s, 1, k - 1)>> \o Split(SubSeq(s, k + 1, Len(s)), sep)

RECURSIVE DecStr(_)
\* str(n) of a non-negative integer
DecStr(n) ==
    IF n < 10 THEN <<Digits[n + 1]>>
    ELSE DecStr(n \div 10) \o <<Digits[(n % 10) + 1]>>

\* a < b for Python str: by code point, a proper prefix is smaller
RECURSIVE StrLess(_, _)
StrLess(a, b) ==
    IF b = <<>> THEN FALSE
    ELSE IF a = <<>> THEN TRUE
    ELSE IF Ord(a[1]) # Ord(b[1]) THEN Ord(a[1]) < Ord(b[1])
    ELSE StrLess(Tail(a), Tail(b))

(***************************************************************************)
(* ipaddress.ip_network(subnet, strict=False), network.hosts(),            *)
(* network.num_addresses and str(ip), as pingsc.py uses them.  The inputs  *)
(* are IPv4 text with a decimal prefix length or none; the dotted netmask  *)
(* form and IPv6 are not among them.                                       *)
(***************************************************************************)
\* ParseOctet without the check against 255
ParseOctetNoLimit(s) ==
    IF ~IsDigits(s) THEN -1
    ELSE IF Len(s) > 3 THEN -1
    ELSE IF s # <<"0">> /\ s[1] = "0" THEN -1
    ELSE ParseInt(s)

\* IPv4Address._parse_octet: -1 stands for the ValueError
ParseOctet(s) ==
    IF ~IsDigits(s) THEN -1
    ELSE IF Len(s) > 3 THEN -1
    ELSE IF s # <<"0">> /\ s[1] = "0" THEN -1
    ELSE IF ParseInt(s) > 255 THEN -1
    ELSE ParseInt(s)

\* IPv4Address._ip_int_from_string: -1 stands for the AddressValueError
IpIntFromString(s) ==
    LET octets == Split(s, ".")
    IN  IF s = <<>> THEN -1
        ELSE IF Len(octets) # 4 THEN -1
        ELSE IF \E i \in 1..4 : ParseOctet(octets[i]) = -1 THEN -1
        ELSE ((ParseOctet(octets[1]) * 256 + ParseOctet(octets[2])) * 256
                 + ParseOctet(octets[3])) * 256 + ParseOctet(octets[4])

\* IPv4Network._make_netmask of a prefix-length string: -1 stands for the
\* NetmaskValueError (a mask that is no decimal number falls back to the
\* dotted form, which fails for every mask that is no dotted quad)
PrefixFromString(s) ==
    IF ~IsDigits(s) THEN -1
    ELSE IF ParseInt(s) > 32 THEN -1
    ELSE ParseInt(s)

\* no network: the variable is unbound, or ip_network raised
NoNetwork == [ok |-> FALSE, network_address |-> 0, prefixlen |-> 32]

\* ip_network(subnet, strict=False): ok = FALSE stands for the ValueError;
\* strict=False masks the host bits of the address away
ip_network(subnet) ==
    LET parts == Split(subnet, "/")
        addr  == IpIntFromString(parts[1])
        plen  == IF Len(parts) > 1 THEN PrefixFromString(parts[2]) ELSE 32
    IN  IF Len(parts) > 2 \/ addr = -1 \/ plen = -1
        THEN NoNetwork
        ELSE [ok |-> TRUE,
              network_address |-> addr - (addr % (2 ^ (32 - plen))),
              prefixlen |-> plen]

\* network.broadcast_address
broadcast_address(net) == net.network_address + (2 ^ (32 - net.prefixlen)) - 1

\* network.num_addresses
num_addresses(net) == broadcast_address(net) - net.network_address + 1

\* the addresses lo, lo+1, .., hi in this order
Range(lo, hi) == [i \in 1..(IF hi >= lo THEN hi - lo + 1 ELSE 0) |-> lo + i - 1]

\* hosts() as iteration over the whole network
hosts_all(net) == Range(net.network_address, broadcast_address(net))

\* network.hosts(): every address of a /31, the one address of a /32,
\* otherwise what lies strictly between network and broadcast address
hosts(net) ==
    IF net.prefixlen = 31
    THEN Range(net.network_address, broadcast_address(net))
    ELSE IF net.prefixlen = 32
    THEN <<net.network_address>>
    ELSE Range(net.network_address + 1, broadcast_address(net) - 1)

\* str(ip): dotted decimal
IpStr(ip) ==
    DecStr((ip \div 16777216) % 256) \o <<".">> \o
    DecStr((ip \div 65536) % 256) \o <<".">> \o
    DecStr((ip \div 256) % 256) \o <<".">> \o
    DecStr(ip % 256)

(***************************************************************************)
(* Inputs.                                                                 *)
(***************************************************************************)
\* network specifications that name a network:
\*   10.0.0.8/30
\*   10.0.0.9/30
\*   10.0.0.8/29
\*   10.0.0.10/31
\*   10.0.0.9/32
\*   10.0.0.9
ValidSubnets ==
    { <<"1", "0", ".", "0", ".", "0", ".", "8", "/", "3", "0">>,
      <<"1", "0", ".", "0", ".", "0", ".", "9", "/", "3", "0">>,
      <<"1", "0", ".", "0", ".", "0", ".", "8", "/", "2", "9">>,
      <<"1", "0", ".", "0", ".", "0", ".", "1", "0", "/", "3", "1">>,
      <<"1", "0", ".", "0", ".", "0", ".", "9", "/", "3", "2">>,
      <<"1", "0", ".", "0", ".", "0", ".", "9">> }

\* texts that name none: no address at all, a prefix length out of bounds,
\* an octet out of bounds, an octet missing:
\*   not-a-subnet
\*   10.0.0.0/33
\*   10.0.0.256/30
\*   10.0.0/30
MalformedSubnets ==
    { <<"n", "o", "t", "-", "a", "-", "s", "u", "b", "n", "e", "t">>,
      <<"1", "0", ".", "0", ".", "0", ".", "0", "/", "3", "3">>,
      <<"1", "0", ".", "0", ".", "0", ".", "2", "5", "6", "/", "3", "0">>,
      <<"1", "0", ".", "0", ".", "0", "/", "3", "0">> }

\* the texts typed at the prompt
Subnets == ValidSubnets \cup MalformedSubnets

\* the max_threads a sweep is run with (50 is the default of scan_subnet)
Workers == {1, 2, 10, 50}

\* the addresses of the network under test that have a machine behind them,
\* 10.0.0.9 and 10.0.0.10; a ping of any other address finds no host
Responders == {IpStr(167772169), IpStr(167772170)}

\* how subprocess.run(ping ...) can end
Outcomes == {"rc0", "rc1", "TimeoutExpired", "Exception"}

(***************************************************************************)
(* State.                                                                  *)
(***************************************************************************)
VARIABLES
    subnet,         \* main: the text read by input()
    max_threads,    \* scan_subnet: the max_threads argument
    probe_env,      \* environment: how the ping of each responder ends
    run,            \* number of the sweep, 1..MaxRuns
    first_report,   \* what the previous sweep printed as its sorted list
    pc,             \* position of the main thread
    network,        \* scan_subnet: the parsed network
    total_printed,  \* the number printed as "Total IPs to scan" (-1: none)
    error_printed,  \* "Error: Invalid subnet format" was printed
    pool,           \* the executor: "none", "open" or "shutdown"
    threads,        \* the executor's number of worker threads
    idle_semaphore, \* the executor's count of workers gone idle
    work_queue,     \* the executor's queue: numbers of the queued tasks
    futures,        \* future_to_ip in insertion order, one record per task
    pings,          \* per task, how many times subprocess.run was started
    cur,            \* the for loop's position in future_to_ip
    total_scanned,  \* scan_subnet: total_scanned
    active_hosts,   \* scan_subnet: active_hosts, also the "is UP" lines
    results,        \* the values future.result() gave the loop, in order
    report,         \* main: the sorted list printed, once printed
    nmap            \* nmap_scanner.py: its position, locals and files

vars == <<subnet, max_threads, probe_env, run, first_report, pc, network,
          total_printed, error_printed, pool, threads, idle_semaphore,
          work_queue, futures, pings, cur, total_scanned,
          active_hosts, results, report, nmap>>

\* the state of a sweep that has not started
Fresh ==
    /\ network = NoNetwork
    /\ total_printed = -1
    /\ error_printed = FALSE
    /\ pool = "none"
    /\ threads = 0
    /\ idle_semaphore = 0
    /\ work_queue = <<>>
    /\ futures = <<>>
    /\ pings = <<>>
    /\ cur = 0
    /\ total_scanned = 0
    /\ active_hosts = <<>>
    /\ results = <<>>
    /\ report = <<>>

\* nmap_scanner.py not running: no targets, no files in the directory
NmapOff ==
    [pc |-> "off", ip_list |-> <<>>, ip |-> "", files |-> <<>>,
     port_scan_output |-> <<>>, open_ports |-> <<>>,
     script_scan_output |-> <<>>, returned |-> <<>>]

Init ==
    /\ nmap = NmapOff
    /\ subnet \in Subnets
    /\ max_threads \in Workers
    /\ probe_env \in [Responders -> Outcomes]
    /\ run = 1
    /\ first_report = <<>>
    /\ pc = "scan_subnet"
    /\ Fresh

\* list(network.hosts()) of the sweep under way
Hosts == hosts(network)

\* the tasks whose ping_host call is running
InFlight == {i \in 1..Len(futures) : futures[i].state = "RUNNING"}

(***************************************************************************)
(* ping_host and sorted().                                                 *)
(***************************************************************************)
\* ping_host that reports Down while another probe is in flight
ping_host_contended(ip, out) ==
    IF out = "rc0" /\ Cardinality({i \in 1..Len(futures) :
                                      futures[i].state = "RUNNING"}) <= 1
    THEN [raised |-> FALSE, value |-> <<TRUE, ip>>]
    ELSE [raised |-> FALSE, value |-> <<FALSE, ip>>]

\* ping_host whose except clause is missing: the exceptions leave the call
ping_host_uncaught(ip, out) ==
    IF out = "rc0"
    THEN [raised |-> FALSE, value |-> <<TRUE, ip>>]
    ELSE IF out = "rc1"
    THEN [raised |-> FALSE, value |-> <<FALSE, ip>>]
    ELSE [raised |-> TRUE, value |-> <<FALSE, ip>>]

\* ping_host(ip) when subprocess.run ends with `out`: what the call returns,
\* or raised = TRUE when an exception leaves it.  The except clause catches
\* TimeoutExpired and every Exception.
ping_host(ip, out) ==
    IF out = "rc0"
    THEN [raised |-> FALSE, value |-> <<TRUE, ip>>]
    ELSE [raised |-> FALSE, value |-> <<FALSE, ip>>]

\* how subprocess.run(ping ... ip) ends: as the environment fixes it for a
\* responder; with no host at the address ping exits 1 at its deadline
SubprocessRun(ip) ==
    IF ip \in DOMAIN probe_env THEN probe_env[ip] ELSE "rc1"

RECURSIVE Insert(_, _)
\* xs, ascending, with x put before the first element greater than it
Insert(xs, x) ==
    IF xs = <<>> THEN <<x>>
    ELSE IF StrLess(x, xs[1]) THEN <<x>> \o xs
    ELSE <<xs[1]>> \o Insert(Tail(xs), x)

RECURSIVE sorted(_)
\* sorted(list of str): ascending by str comparison, stable
sorted(xs) ==
    IF xs = <<>> THEN <<>>
    ELSE Insert(sorted(SubSeq(xs, 1, Len(xs) - 1)), xs[Len(xs)])

(***************************************************************************)
(* The main thread: main() and scan_subnet().                              *)
(***************************************************************************)
\* scan_subnet up to the with statement: ip_network() and the three prints,
\* or the except ValueError branch, which prints the error and returns []
ScanSubnet ==
    /\ pc = "scan_subnet"
    /\ LET net == ip_network(subnet)
       IN  IF net.ok
           THEN /\ network' = net
                /\ total_printed' = num_addresses(net)
                /\ pc' = "pool"
                /\ UNCHANGED error_printed
           ELSE /\ error_printed' = TRUE
                /\ pc' = "main_print"
                /\ UNCHANGED <<network, total_printed>>
    /\ UNCHANGED <<nmap, subnet, max_threads, probe_env, run, first_report, pool,
                   threads, idle_semaphore, work_queue, futures, pings,
                   cur, total_scanned, active_hosts, results,
                   report>>

\* with ThreadPoolExecutor(max_workers=max_threads) as executor
CreatePool ==
    /\ pc = "pool"
    /\ pool' = "open"
    /\ pc' = IF Len(Hosts) = 0 THEN "for" ELSE "submit"
    /\ UNCHANGED <<nmap, subnet, max_threads, probe_env, run, first_report, network,
                   total_printed, error_printed, threads, idle_semaphore,
                   work_queue, futures, pings, cur, total_scanned,
                   active_hosts, results, report>>

\* NewFuture with the argument bound late: every task gets the last address
NewFutureLateBound(ip) ==
    [state |-> "PENDING", key |-> ip,
     ip |-> IpStr(hosts(network)[Len(hosts(network))]),
     raised |-> FALSE, result |-> <<FALSE, <<>>>>]

\* a new Future, as executor.submit creates it, for ping_host(str(ip)); key
\* is the address future_to_ip maps it to
NewFuture(ip) ==
    [state |-> "PENDING", key |-> ip, ip |-> IpStr(ip), raised |-> FALSE,
     result |-> <<FALSE, <<>>>>]

\* AdjustThreadCount that stops one thread short of max_workers
AdjustThreadCountOneShort(n, idle) ==
    IF idle > 0 THEN n
    ELSE IF n < max_threads - 1 THEN n + 1
    ELSE n

\* AdjustThreadCount without the max_workers ceiling
AdjustThreadCountNoCeiling(n, idle) ==
    IF idle > 0 THEN n ELSE n + 1

\* ThreadPoolExecutor._adjust_thread_count: the number of threads after a
\* submit that finds `idle` in the idle semaphore
AdjustThreadCount(n, idle) ==
    IF idle > 0 THEN n
    ELSE IF n < max_threads THEN n + 1
    ELSE n

\* one round of the dict comprehension: executor.submit(ping_host, str(ip))
\* for the next ip of network.hosts()
Submit ==
    /\ pc = "submit"
    /\ LET k == Len(futures) + 1
       IN  /\ k <= Len(Hosts)
           /\ futures' = Append(futures, NewFuture(Hosts[k]))
           /\ work_queue' = Append(work_queue, k)
           /\ pings' = Append(pings, 0)
           /\ threads' = AdjustThreadCount(threads, idle_semaphore)
           /\ idle_semaphore' =
                  IF idle_semaphore > 0 THEN idle_semaphore - 1 ELSE 0
           /\ pc' = IF k = Len(Hosts) THEN "for" ELSE "submit"
    /\ UNCHANGED <<nmap, subnet, max_threads, probe_env, run, first_report, network,
                   total_printed, error_printed, pool, cur, total_scanned,
                   active_hosts, results, report>>

\* the future the for loop takes after the one at position i
NextFuture(i) == i + 1

\* for future in future_to_ip: the next future and total_scanned += 1, or
\* the end of the loop
ForNext ==
    /\ pc = "for"
    /\ IF cur < Len(futures)
       THEN /\ cur' = NextFuture(cur)
            /\ total_scanned' = total_scanned + 1
            /\ pc' = "result"
       ELSE /\ pc' = "exit"
            /\ UNCHANGED <<cur, total_scanned>>
    /\ UNCHANGED <<nmap, subnet, max_threads, probe_env, run, first_report, network,
                   total_printed, error_printed, pool, threads,
                   idle_semaphore, work_queue, futures, pings,
                   active_hosts, results, report>>

\* is_up, ip = future.result(), which waits for this future to finish and
\* raises what the call raised; then the append and the "is UP" line
FutureResult ==
    /\ pc = "result"
    /\ futures[cur].state = "FINISHED"
    /\ IF futures[cur].raised
       THEN /\ pc' = "raised"
            /\ UNCHANGED <<active_hosts, results>>
       ELSE /\ results' = Append(results, futures[cur].result)
            /\ active_hosts' =
                   IF futures[cur].result[1]
                   THEN Append(active_hosts, futures[cur].result[2])
                   ELSE active_hosts
            /\ pc' = "for"
    /\ UNCHANGED <<nmap, subnet, max_threads, probe_env, run, first_report, network,
                   total_printed, error_printed, pool, threads,
                   idle_semaphore, work_queue, futures, pings,
                   cur, total_scanned, report>>

\* leaving the with block, by the end of the loop or by an exception:
\* executor.shutdown(wait=True) first forbids new submits
ExitPool ==
    /\ pc \in {"exit", "raised"}
    /\ pool' = "shutdown"
    /\ pc' = IF pc = "exit" THEN "join" ELSE "join_raised"
    /\ UNCHANGED <<nmap, subnet, max_threads, probe_env, run, first_report, network,
                   total_printed, error_printed, threads, idle_semaphore,
                   work_queue, futures, pings, cur, total_scanned,
                   active_hosts, results, report>>

\* leaving the with block without waiting for the workers, as
\* executor.shutdown(wait=False) would
JoinPoolNoWait ==
    /\ pc \in {"join", "join_raised"}
    /\ threads' = 0
    /\ pc' = IF pc = "join" THEN "main_print" ELSE "crashed"
    /\ UNCHANGED <<nmap, subnet, max_threads, probe_env, run, first_report,
                   network, total_printed, error_printed, pool,
                   idle_semaphore, work_queue, futures, pings, cur,
                   total_scanned, active_hosts, results, report>>

\* shutdown(wait=True) joins the workers, which first run what is queued;
\* then return active_hosts, or the exception leaves scan_subnet and main
JoinPool ==
    /\ pc \in {"join", "join_raised"}
    /\ work_queue = <<>>
    /\ InFlight = {}
    /\ threads' = 0
    /\ pc' = IF pc = "join" THEN "main_print" ELSE "crashed"
    /\ UNCHANGED <<nmap, subnet, max_threads, probe_env, run, first_report, network,
                   total_printed, error_printed, pool, idle_semaphore,
                   work_queue, futures, pings, cur, total_scanned,
                   active_hosts, results, report>>

\* main after scan_subnet returned: the count and sorted(active_hosts)
MainReport ==
    /\ pc = "main_print"
    /\ report' = sorted(active_hosts)
    /\ pc' = "done"
    /\ UNCHANGED <<nmap, subnet, max_threads, probe_env, run, first_report, network,
                   total_printed, error_printed, pool, threads,
                   idle_semaphore, work_queue, futures, pings,
                   cur, total_scanned, active_hosts, results>>

(***************************************************************************)
(* The worker threads of the executor.                                     *)
(***************************************************************************)
\* an idle worker takes the oldest work item off the queue and calls
\* ping_host, which starts subprocess.run
StartProbe ==
    /\ work_queue # <<>>
    /\ threads - Cardinality(InFlight) > 0
    /\ LET i == Head(work_queue)
       IN  /\ futures' = [futures EXCEPT ![i].state = "RUNNING"]
           /\ pings' = [pings EXCEPT ![i] = @ + 1]
    /\ work_queue' = Tail(work_queue)
    /\ UNCHANGED <<nmap, subnet, max_threads, probe_env, run, first_report, pc,
                   network, total_printed, error_printed, pool, threads,
                   idle_semaphore, cur, total_scanned,
                   active_hosts, results, report>>

\* FinishProbe with the worker itself appending to active_hosts
FinishProbeAppends ==
    \E i \in InFlight :
        LET r == ping_host(futures[i].ip, SubprocessRun(futures[i].ip))
        IN  /\ futures' = [futures EXCEPT ![i].state = "FINISHED",
                                          ![i].raised = r.raised,
                                          ![i].result = r.value]
            /\ active_hosts' = IF r.value[1]
                               THEN Append(active_hosts, r.value[2])
                               ELSE active_hosts
            /\ idle_semaphore' = idle_semaphore + 1
            /\ UNCHANGED <<nmap, subnet, max_threads, probe_env, run,
                           first_report, pc, network, total_printed,
                           error_printed, pool, threads, work_queue,
                           pings, cur, total_scanned, results, report>>

\* subprocess.run ends, ping_host returns (or raises), the worker stores
\* that in the future and releases the idle semaphore
FinishProbe ==
    \E i \in InFlight :
        LET r == ping_host(futures[i].ip, SubprocessRun(futures[i].ip))
        IN  /\ futures' = [futures EXCEPT ![i].state = "FINISHED",
                                          ![i].raised = r.raised,
                                          ![i].result = r.value]
            /\ idle_semaphore' = idle_semaphore + 1
            /\ UNCHANGED <<nmap, subnet, max_threads, probe_env, run,
                           first_report, pc, network, total_printed,
                           error_printed, pool, threads, work_queue,
                           pings, cur, total_scanned, active_hosts,
                           results, report>>

(***************************************************************************)
(* The program run again on the same text against the same hosts.          *)
(***************************************************************************)
Rerun ==
    /\ pc = "done"
    /\ run < MaxRuns
    /\ run' = run + 1
    /\ first_report' = report
    /\ max_threads' \in Workers
    /\ pc' = "scan_subnet"
    /\ network' = NoNetwork
    /\ total_printed' = -1
    /\ error_printed' = FALSE
    /\ pool' = "none"
    /\ threads' = 0
    /\ idle_semaphore' = 0
    /\ work_queue' = <<>>
    /\ futures' = <<>>
    /\ pings' = <<>>
    /\ cur' = 0
    /\ total_scanned' = 0
    /\ active_hosts' = <<>>
    /\ results' = <<>>
    /\ report' = <<>>
    /\ UNCHANGED <<nmap, subnet, probe_env>>

\* the exit status of the process: 0 when main returns, non-zero when an
\* exception leaves main, -1 while the program runs
ExitCode ==
    IF pc = "done" THEN 0 ELSE IF pc = "crashed" THEN 1 ELSE -1

\* a step of the main thread or of a worker once the network is parsed
SweepStep ==
    \/ CreatePool
    \/ Submit
    \/ ForNext
    \/ FutureResult
    \/ ExitPool
    \/ JoinPool
    \/ MainReport
    \/ StartProbe
    \/ FinishProbe

Next ==
    \/ ScanSubnet
    \/ SweepStep
    \/ Rerun

Spec == Init /\ [][Next]_vars

\* While the main thread or a worker can take a step of the sweep, one of
\* them does: threads are scheduled, and subprocess.run returns within its
\* timeout.
\* Nothing obliges anyone to run the program again.
Fairness == WF_vars(SweepStep)

FairSpec == Spec /\ Fairness

\* KeyboardInterrupt reaches the main thread inside the with block, while it
\* submits, between two rounds of the loop or while it waits in
\* future.result(): the exception leaves the block through its exit
Interrupt ==
    /\ pc \in {"submit", "for", "result"}
    /\ pc' = "raised"
    /\ UNCHANGED <<nmap, subnet, max_threads, probe_env, run, first_report,
                   network, total_printed, error_printed, pool, threads,
                   idle_semaphore, work_queue, futures, pings, cur,
                   total_scanned, active_hosts, results, report>>

IntNext ==
    \/ Next
    \/ Interrupt

\* the program with the interrupt the user may send it
IntSpec == Init /\ [][IntNext]_vars

(***************************************************************************)
(* nmap_scanner.py: scan_multiple_ips and scan_single_ip.  A line of nmap  *)
(* output is a record of its columns, "port/proto state service"; a line   *)
(* with no "/" has an empty proto.  A file name is the pair of its stem    *)
(* and the target, nmap_open_ports_<ip>.txt being <<"nmap_open_ports",     *)
(* ip>>.                                                                   *)
(***************************************************************************)
\* the targets given on the command line
Targets == {"10.10.10.10", "10.10.10.11"}

\* the argument lists: one target, or two
TargetLists ==
    {<<a>> : a \in Targets} \cup {<<a, b>> : a \in Targets, b \in Targets}

Line(port, proto, state, service) ==
    [port |-> port, proto |-> proto, state |-> state, service |-> service]

\* "PORT STATE SERVICE"
HeaderLine == Line(<<"P", "O", "R", "T">>, "", "STATE", "SERVICE")

\* "135/tcp open msrpc", "445/tcp open microsoft-ds", "80/tcp closed http",
\* "22/tcp filtered ssh", "53/udp open domain"
Line135 == Line(<<"1", "3", "5">>, "tcp", "open", "msrpc")

Line445 == Line(<<"4", "4", "5">>, "tcp", "open", "microsoft-ds")

Line80 == Line(<<"8", "0">>, "tcp", "closed", "http")

Line22 == Line(<<"2", "2">>, "tcp", "filtered", "ssh")

Line53 == Line(<<"5", "3">>, "udp", "open", "domain")

\* what nmap -p- may write with -oN
PortScanOutputs ==
    { <<HeaderLine>>,
      <<HeaderLine, Line80, Line22>>,
      <<HeaderLine, Line53>>,
      <<HeaderLine, Line135>>,
      <<HeaderLine, Line22, Line135, Line53, Line445>> }

\* what nmap -sC -sV -O -p <ports> may write with -oN
ScriptScanOutputs ==
    { <<HeaderLine, Line135>>, <<HeaderLine, Line135, Line445>> }

\* the names of the files the manual lists for a target
FileStems == {"nmap_open_ports", "nmap_scripts", "nmap_full_scan"}

\* re.match(r'^(\d+)/tcp\s+open\s+\S+', line.strip())
MatchesOpenTcp(line) ==
    /\ IsDigits(line.port)
    /\ line.proto = "tcp"
    /\ line.state = "open"
    /\ line.service # ""

\* extract_open_ports(nmap_output): the ports of the matching lines, in order
extract_open_ports(nmap_output) ==
    LET open == SelectSeq(nmap_output, MatchesOpenTcp)
    IN  [k \in 1..Len(open) |-> open[k].port]

\* the variables of pingsc.py
pingVars == <<subnet, max_threads, probe_env, run, first_report, pc, network,
              total_printed, error_printed, pool, threads, idle_semaphore,
              work_queue, futures, pings, cur, total_scanned,
              active_hosts, results, report>>

\* pingsc.py not running
PingOff ==
    /\ subnet = <<>>
    /\ max_threads = 50
    /\ probe_env = [r \in Responders |-> "rc1"]
    /\ run = 1
    /\ first_report = <<>>
    /\ pc = "off"
    /\ Fresh

\* nmap_scanner.py started on a list of valid targets in an empty directory
NmapInit ==
    /\ PingOff
    /\ \E l \in TargetLists :
           nmap = [NmapOff EXCEPT !.pc = "loop", !.ip_list = l]

\* scan_single_ip returns `value` to the loop
NmapReturn(value) ==
    [nmap EXCEPT !.pc = "loop",
                 !.returned = Append(@, <<nmap.ip, value>>)]

\* for ip in ip_list: scan_single_ip(ip), or the end of the list
NmapNextTarget ==
    /\ nmap.pc = "loop"
    /\ nmap' = IF nmap.ip_list = <<>>
               THEN [nmap EXCEPT !.pc = "done"]
               ELSE [nmap EXCEPT !.pc = "port_scan",
                                 !.ip = Head(nmap.ip_list),
                                 !.ip_list = Tail(nmap.ip_list),
                                 !.port_scan_output = <<>>,
                                 !.open_ports = <<>>,
                                 !.script_scan_output = <<>>]
    /\ UNCHANGED pingVars

\* step 1: run_command(port_scan_cmd).  nmap may or may not write its -oN
\* file and may or may not exit 0; None makes scan_single_ip return False
NmapPortScan ==
    /\ nmap.pc = "port_scan"
    /\ \E ok \in BOOLEAN, wrote \in BOOLEAN, out \in PortScanOutputs :
           LET fs == IF wrote
                     THEN (<<"nmap_open_ports", nmap.ip>> :> out) @@ nmap.files
                     ELSE nmap.files
           IN  nmap' = IF ok
                       THEN [nmap EXCEPT !.pc = "read_ports", !.files = fs]
                       ELSE [NmapReturn(FALSE) EXCEPT !.files = fs]
    /\ UNCHANGED pingVars

\* open(nmap_open_ports_<ip>.txt).read(), or FileNotFoundError: return False
NmapReadPorts ==
    /\ nmap.pc = "read_ports"
    /\ nmap' = IF <<"nmap_open_ports", nmap.ip>> \in DOMAIN nmap.files
               THEN [nmap EXCEPT
                        !.pc = "extract",
                        !.port_scan_output =
                            nmap.files[<<"nmap_open_ports", nmap.ip>>]]
               ELSE NmapReturn(FALSE)
    /\ UNCHANGED pingVars

\* open_ports = extract_open_ports(port_scan_output); with no open port,
\* return True
NmapExtract ==
    /\ nmap.pc = "extract"
    /\ LET ports == extract_open_ports(nmap.port_scan_output)
       IN  nmap' = IF ports = <<>>
                   THEN NmapReturn(TRUE)
                   ELSE [nmap EXCEPT !.pc = "script_scan",
                                     !.open_ports = ports]
    /\ UNCHANGED pingVars

\* step 2: run_command(script_scan_cmd), as step 1
NmapScriptScan ==
    /\ nmap.pc = "script_scan"
    /\ \E ok \in BOOLEAN, wrote \in BOOLEAN, out \in ScriptScanOutputs :
           LET fs == IF wrote
                     THEN (<<"nmap_scripts", nmap.ip>> :> out) @@ nmap.files
                     ELSE nmap.files
           IN  nmap' = IF ok
                       THEN [nmap EXCEPT !.pc = "read_scripts", !.files = fs]
                       ELSE [NmapReturn(FALSE) EXCEPT !.files = fs]
    /\ UNCHANGED pingVars

\* open(nmap_scripts_<ip>.txt).read(), or FileNotFoundError: return False
NmapReadScripts ==
    /\ nmap.pc = "read_scripts"
    /\ nmap' = IF <<"nmap_scripts", nmap.ip>> \in DOMAIN nmap.files
               THEN [nmap EXCEPT
                        !.pc = "combine",
                        !.script_scan_output =
                            nmap.files[<<"nmap_scripts", nmap.ip>>]]
               ELSE NmapReturn(FALSE)
    /\ UNCHANGED pingVars

\* step 3: write nmap_full_scan_<ip>.txt from both outputs; return True
NmapCombine ==
    /\ nmap.pc = "combine"
    /\ nmap' = [NmapReturn(TRUE) EXCEPT
                   !.files = (<<"nmap_full_scan", nmap.ip>> :>
                                 (nmap.port_scan_output \o
                                  nmap.script_scan_output)) @@ nmap.files]
    /\ UNCHANGED pingVars

NmapNext ==
    \/ NmapNextTarget
    \/ NmapPortScan
    \/ NmapReadPorts
    \/ NmapExtract
    \/ NmapScriptScan
    \/ NmapReadScripts
    \/ NmapCombine

NmapSpec == NmapInit /\ [][NmapNext]_vars

(***************************************************************************)
(* Properties.                                                             *)
(***************************************************************************)
\* scan_subnet has returned active_hosts of a valid network
Returned == network.ok /\ pc \in {"main_print", "done"}

\* the tasks that ping the address with text ip
TasksOf(ip) == {i \in 1..Len(futures) : futures[i].ip = ip}

\* the results the loop consumed for the address with text ip
ResultsOf(ip) == {j \in 1..Len(results) : results[j][2] = ip}

\* C1: no task's ping is started twice and no address is consumed twice at
\* any time, and once scan_subnet has returned, every address of
\* network.hosts() has exactly one task, pinged exactly once, and exactly
\* one result consumed by the loop, which counted len(hosts) rounds.
C1_ExactlyOneResult ==
    /\ \A i \in 1..Len(pings) : pings[i] <= 1
    /\ \A j, k \in 1..Len(results) : j # k => results[j][2] # results[k][2]
    /\ Returned =>
          /\ \A h \in 1..Len(Hosts) :
                /\ Cardinality(TasksOf(IpStr(Hosts[h]))) = 1
                /\ \A i \in TasksOf(IpStr(Hosts[h])) : pings[i] = 1
                /\ Cardinality(ResultsOf(IpStr(Hosts[h]))) = 1
          /\ Len(results) = Len(Hosts)
          /\ total_scanned = Len(Hosts)

\* a sweep of six hosts has returned, with Up and Down results consumed
C1_Witness ==
    /\ Returned
    /\ Len(Hosts) = 6
    /\ \E j, k \in 1..Len(results) : results[j][1] /\ ~results[k][1]

\* C2: the number of ping_host calls in flight never exceeds max_threads.
C2_InFlightCeiling == Cardinality(InFlight) <= max_threads

\* max_threads probes are in flight and further tasks wait in the queue
C2_Witness ==
    /\ Cardinality(InFlight) = max_threads
    /\ work_queue # <<>>
    /\ max_threads = 2

\* C3: the list main prints is ascending by address value.
C3_ReportAscendingByValue ==
    pc = "done" =>
        \A k \in 1..(Len(report) - 1) :
            IpIntFromString(report[k]) < IpIntFromString(report[k + 1])

\* the outcome of the ping behind task i was an exception in subprocess.run
ProbeFailed(i) ==
    SubprocessRun(futures[i].ip) \in {"TimeoutExpired", "Exception"}

\* C4: a probe whose subprocess.run times out or raises resolves to
\* (False, ip), no exception reaches the loop, and the sweep still pings
\* every address and returns the addresses whose ping exited 0.
C4_ProbeFailureIsDown ==
    /\ \A i \in 1..Len(futures) :
          (futures[i].state = "FINISHED" /\ ProbeFailed(i)) =>
              (~futures[i].raised /\ futures[i].result = <<FALSE, futures[i].ip>>)
    /\ pc \notin {"raised", "join_raised", "crashed"}
    /\ Returned =>
          /\ Len(futures) = Len(Hosts)
          /\ \A i \in 1..Len(futures) :
                /\ pings[i] = 1
                /\ futures[i].state = "FINISHED"
          /\ active_hosts =
                SelectSeq([i \in 1..Len(Hosts) |-> IpStr(Hosts[i])],
                          LAMBDA ip : SubprocessRun(ip) = "rc0")

\* a sweep has returned an Up address probed after one whose probe timed
\* out and one whose probe raised
C4_Witness ==
    /\ Returned
    /\ \E i, j \in 1..Len(futures) :
          /\ i < j
          /\ ProbeFailed(i)
          /\ futures[j].result[1]
          /\ futures[j].ip = active_hosts[1]

\* every task of the sweep is submitted and resolved
AllResolved ==
    /\ Len(futures) = Len(Hosts)
    /\ \A i \in 1..Len(futures) : futures[i].state = "FINISHED"

\* the ping of every host address of the sweep ends in TimeoutExpired
AllTimeOut ==
    \A h \in 1..Len(Hosts) : SubprocessRun(IpStr(Hosts[h])) = "TimeoutExpired"

\* C5: under fair scheduling, a sweep that has parsed its network reaches
\* the end of main with every task resolved and the pool joined; when every
\* probe timed out, the list is empty and no error was printed.
C5_SweepCompletes ==
    (pc = "pool") ~>
        (/\ pc = "done"
         /\ AllResolved
         /\ threads = 0
         /\ AllTimeOut => (report = <<>> /\ ~error_printed))

\* a sweep of two hosts whose probes all timed out is complete
C5_Witness ==
    /\ pc = "done"
    /\ network.ok
    /\ Len(Hosts) = 2
    /\ AllResolved
    /\ AllTimeOut
    /\ report = <<>>

\* C6: the second run on the same text against the same hosts prints the
\* list the first run printed, whatever max_threads either run had.
C6_SameReportTwice ==
    (run > 1 /\ pc = "done") => report = first_report

\* a second run with one worker has printed a list of two addresses
C6_Witness ==
    /\ run = 2
    /\ pc = "done"
    /\ max_threads = 1
    /\ Len(report) = 2
    /\ report = first_report

\* C7: while an address has resolved Up and its line is not yet printed, the
\* loop is not waiting for the unresolved probe of another address.
C7_NoWaitOnAnotherProbe ==
    \A i \in 1..Len(futures) :
        (/\ futures[i].state = "FINISHED"
         /\ futures[i].result[1]
         /\ i > cur \/ (i = cur /\ pc = "result"))
        => ~(/\ pc = "result"
             /\ cur # i
             /\ futures[cur].state # "FINISHED")

\* the addresses submitted for probing, in submission order
Submitted == [i \in 1..Len(futures) |-> futures[i].key]

\* C8: once every task is submitted, the addresses to probe are strictly
\* ascending; with a prefix of at most 30 they are exactly the addresses
\* strictly between the network and the broadcast address (two for a /30),
\* for a /31 its two addresses and for a /32 its one address.
C8_HostSequence ==
    (network.ok /\ pc \notin {"scan_subnet", "pool", "submit"}) =>
        LET lo == network.network_address
            n  == Len(Submitted)
        IN  /\ \A i \in 1..n : futures[i].ip = IpStr(Submitted[i])
            /\ \A i \in 1..(n - 1) : Submitted[i] < Submitted[i + 1]
            /\ lo % (2 ^ (32 - network.prefixlen)) = 0
            /\ network.prefixlen <= 30 =>
                  /\ n = (2 ^ (32 - network.prefixlen)) - 2
                  /\ \A i \in 1..n : Submitted[i] = lo + i
            /\ network.prefixlen = 30 => n = 2
            /\ network.prefixlen = 31 => Submitted = <<lo, lo + 1>>
            /\ network.prefixlen = 32 => Submitted = <<lo>>

\* the six hosts of a /29 are submitted
C8_Witness ==
    /\ network.ok
    /\ pc = "for"
    /\ network.prefixlen = 29
    /\ Len(Submitted) = 6

\* C9: the total the sweep prints is the number of addresses it probed.
C9_TotalIsProbed ==
    Returned => total_printed = Len(results)

\* C10: a malformed text is reported as an error and leaves no pool, no
\* thread, no task and no ping behind, at any time.
C10_MalformedNeverProbes ==
    subnet \in MalformedSubnets =>
        /\ pool = "none"
        /\ threads = 0
        /\ futures = <<>>
        /\ work_queue = <<>>
        /\ pings = <<>>
        /\ ~network.ok
        /\ pc # "scan_subnet" => error_printed

\* main has finished on a malformed text
C10_Witness ==
    /\ subnet \in MalformedSubnets
    /\ pc = "done"
    /\ error_printed

\* C11: a run on a malformed text ends with a non-zero exit status and a
\* run on a valid text ends with exit status 0, so that the caller can tell
\* the error from a sweep that found no host.
C11_InvalidRangeExitsNonZero ==
    pc = "done" \/ pc = "crashed" =>
        IF subnet \in MalformedSubnets THEN ExitCode # 0 ELSE ExitCode = 0

\* scan_subnet has returned or an exception has left it
Left == pc \in {"main_print", "done", "crashed"}

\* C12: once scan_subnet has returned or raised after creating its pool, the
\* pool is shut down, it has no worker thread, no queued task and no task
\* in flight, and every submitted task is resolved.
C12_PoolReleased ==
    (Left /\ pool # "none") =>
        /\ pool = "shutdown"
        /\ threads = 0
        /\ work_queue = <<>>
        /\ InFlight = {}
        /\ \A i \in 1..Len(futures) : futures[i].state = "FINISHED"

\* an exception has left scan_subnet before the loop consumed any of the
\* six results
C12_Witness ==
    /\ pc = "crashed"
    /\ pool = "shutdown"
    /\ Len(futures) = 6
    /\ results = <<>>

\* the signal that stops the sweep has been raised
Cancelled == pc \in {"raised", "join_raised", "crashed"}

\* C13: once the signal that stops the sweep is raised, no task is
\* submitted and no probe is started any more.
C13_NoStartAfterCancel ==
    [][Cancelled => (Len(futures') = Len(futures) /\ pings' = pings)]_vars

\* C15: within a run, active_hosts, total_scanned and the consumed results
\* change only in a step of the for loop, which touches no future and starts
\* no probe; active_hosts only grows at its end; and a step that changes a
\* future changes that one future only, which was not resolved before, and
\* leaves active_hosts and total_scanned alone.
C15_SingleWriter ==
    [][run' = run =>
        /\ (\/ active_hosts' # active_hosts
            \/ total_scanned' # total_scanned
            \/ results' # results) =>
               /\ pc \in {"for", "result"}
               /\ pc' # pc
               /\ futures' = futures
               /\ pings' = pings
        /\ Len(active_hosts') >= Len(active_hosts)
        /\ \A k \in 1..Len(active_hosts) : active_hosts'[k] = active_hosts[k]
        /\ \A i \in 1..Len(futures) :
               futures'[i] # futures[i] =>
                   /\ futures[i].state # "FINISHED"
                   /\ \A j \in 1..Len(futures) :
                          j # i => futures'[j] = futures[j]
                   /\ active_hosts' = active_hosts
                   /\ total_scanned' = total_scanned
                   /\ results' = results
      ]_vars

\* the loop has appended an Up address while a probe is in flight
C15_Witness ==
    /\ Len(active_hosts) >= 1
    /\ total_scanned >= 1
    /\ InFlight # {}

\* C14: every target for which scan_single_ip returned True has its three
\* files, nmap_open_ports, nmap_scripts and nmap_full_scan.
C14_ThreeFilesPerTarget ==
    \A k \in 1..Len(nmap.returned) :
        nmap.returned[k][2] =>
            \A stem \in FileStems :
                <<stem, nmap.returned[k][1]>> \in DOMAIN nmap.files

=============================================================================
